---- MODULE Spec2Model ----
(***************************************************************************)
(* A model of freud.plot (src/freud/plot.py): the plotting helpers that    *)
(* draw simulation-analysis results on matplotlib axes.                    *)
(*                                                                         *)
(* State: the axes objects created so far (each with its figure, its drawn *)
(* elements, title, labels and 3D limits), the caller's input data (box,   *)
(* points, cluster keys and frequencies, the PMFT array, the Voronoi       *)
(* polytopes), and the outcome of the last call.                           *)
(*                                                                         *)
(* Coordinates are exact rationals held as integer multiples of 1/4: every *)
(* input coordinate is an even number of quarters (a multiple of 1/2), so  *)
(* the mean and the half-span that _set_3d_axes_equal computes are         *)
(* integers.  Floating-point rounding is not modelled.                     *)
(***************************************************************************)
EXTENDS Integers, Sequences, FiniteSets, TLC

VARIABLES axes, data, result, calls

vars == <<axes, data, result, calls>>

(***************************** bounds **************************************)
\* Number of calls in a run.
MaxCalls == 2
\* Longest keys/freqs list given to clusters_plot.
MaxLen == 3
\* Largest cluster frequency.
MaxFreq == 2
\* Largest box edge length (in units of length).
MaxL == 2
\* Largest |coordinate| of a particle or of an explicit limit.
MaxCoord == 1

(***************************** helpers *************************************)
Min2(a, b) == IF a <= b THEN a ELSE b
Max2(a, b) == IF a >= b THEN a ELSE b

\* Python's s[:n] for n >= 0.
Take(s, n) == SubSeq(s, 1, Min2(n, Len(s)))

\* Python's reversed order (np.flipud on a column of rows).
Flipud(s) == [i \in 1..Len(s) |-> s[Len(s) + 1 - i]]

\* None for text arguments, and None for the ax argument.
NoText == <<>>
NoAx == 0

(***************************** axes objects ********************************)
\* Limits of a freshly created axes: (0, 1) on each axis, in quarters.
DefaultLim == <<<<0, 4>>, <<0, 4>>, <<0, 4>>>>

\* fig.subplots() / fig.add_subplot(111, projection="3d"): a new, empty axes.
NewAxes(fig, dim) ==
    [fig |-> fig, dim |-> dim, attached |-> TRUE, elems |-> <<>>,
     title |-> NoText, labels |-> <<NoText, NoText, NoText>>,
     xticks |-> <<>>, aspect |-> "auto", lim |-> DefaultLim]

\* A drawn element (line, scatter, bar, hist, image, collection, colorbar, legend).
Elem(kind, color, args, kwargs, x, h) ==
    [kind |-> kind, color |-> color, args |-> args, kwargs |-> kwargs,
     x |-> x, h |-> h]

\* "if ax is None: fig = plt.figure(); ax = fig.subplots()": the axes to draw on.
EnsureAxes_always(axs, ax, dim) ==
    [axes |-> Append(axs, NewAxes(Len(axs) + 1, dim)), id |-> Len(axs) + 1]

EnsureAxes(axs, ax, dim) ==
    IF ax = NoAx
    THEN [axes |-> Append(axs, NewAxes(Len(axs) + 1, dim)), id |-> Len(axs) + 1]
    ELSE [axes |-> axs, id |-> ax]

\* make_axes_locatable(ax).append_axes("right", ...): a colorbar axes in ax's figure.
AppendCax(axs, id) == Append(axs, NewAxes(axs[id].fig, 2))

\* Colorbar(cax, mappable); cb.set_label(label): drawn on the last axes created.
DrawColorbar(axs, label) ==
    [axs EXCEPT ![Len(axs)].elems = Append(@, Elem("colorbar", "", <<>>, {}, <<>>, <<>>)),
                ![Len(axs)].labels = <<NoText, label, NoText>>]

Draw(axs, id, es) == [axs EXCEPT ![id].elems = @ \o es]

\* The outcome of a call, as the caller sees it.
NoResult ==
    [op |-> "none", ax |-> NoAx, target |-> NoAx, first |-> 0,
     ret |-> [kind |-> "none", ax |-> NoAx], raised |-> [type |-> "", msg |-> <<>>],
     title |-> NoText, args |-> <<>>, kwargs |-> {},
     color_by |-> "None", cmap |-> "None", warned |-> FALSE,
     num |-> 0, limits |-> DefaultLim, legend_labels |-> NoText]

RetAxes(id) == [kind |-> "axes", ax |-> id]

\* Axes the caller may pass as ax to a function drawing in `dim` dimensions.
AxChoices(dim) == {NoAx} \cup {i \in 1..Len(axes) : axes[i].dim = dim}

FirstNew(ax) == IF ax = NoAx THEN 0 ELSE Len(axes[ax].elems)

(***************************** geometry ************************************)
\* Box.make_absolute for a fractional coordinate f (integers here: a corner
\* plus a periodic image), for a box given by its edge lengths: (f - 1/2) * L,
\* in quarters.  freud.box is not part of the source under study.
MakeAbsolute(box, f) == [i \in 1..3 |-> (4 * f[i] - 2) * box.L[i]]

Add3(a, b) == [i \in 1..3 |-> a[i] + b[i]]

Span(l) == l[2] - l[1]
MaxSpan(limits) == Max2(Span(limits[1]), Max2(Span(limits[2]), Span(limits[3])))
MinSpan(limits) == Min2(Span(limits[1]), Min2(Span(limits[2]), Span(limits[3])))

\* np.mean(l, axis=1)[i]
Origin(l, i) == (l[i][1] + l[i][2]) \div 2

\* 0.5 * np.max(l[:, 1] - l[:, 0])
Radius(l) == MaxSpan(l) \div 2

\* _set_3d_axes_equal with the smallest span instead of the largest.
Set3dAxesEqual_min(limits) ==
    CHOOSE out \in {[i \in 1..3 |-> <<Origin(l, i) - MinSpan(l) \div 2,
                                      Origin(l, i) + MinSpan(l) \div 2>>]
                    : l \in {limits}} : TRUE

\* _set_3d_axes_equal: the limits it sets from the limits it is given
\* (l is np.asarray(limits), evaluated once).
Set3dAxesEqual(limits) ==
    CHOOSE out \in {[i \in 1..3 |-> <<Origin(l, i) - Radius(l),
                                      Origin(l, i) + Radius(l)>>]
                    : l \in {limits}} : TRUE

\* kwargs.pop("color", "k"): the value popped, and what is left.
PopColor(kwargs) ==
    IF \E p \in kwargs : p[1] = "color"
    THEN (CHOOSE p \in kwargs : p[1] = "color")[2]
    ELSE "k"
WithoutColor(kwargs) == {p \in kwargs : p[1] # "color"}

\* Flattened coordinates of a path through corners (first `d` components each).
RECURSIVE Flatten(_, _)
Flatten(path, d) ==
    IF path = <<>> THEN <<>>
    ELSE SubSeq(Head(path), 1, d) \o Flatten(Tail(path), d)

Corners2D == <<<<0, 0, 0>>, <<0, 1, 0>>, <<1, 1, 0>>, <<1, 0, 0>>, <<0, 0, 0>>>>
Corners3D == <<<<0, 0, 0>>, <<0, 0, 1>>, <<0, 1, 0>>, <<0, 1, 1>>,
               <<1, 0, 0>>, <<1, 0, 1>>, <<1, 1, 0>>, <<1, 1, 1>>>>
\* The index lists of box_plot's six paths (1-based).
Paths3D == <<<<1, 2, 4, 3, 1>>, <<5, 6, 8, 7, 5>>, <<1, 5>>, <<2, 6>>, <<3, 7>>, <<4, 8>>>>

AbsCorners(box, cs, image) ==
    [i \in 1..Len(cs) |-> MakeAbsolute(box, Add3(cs[i], image))]

\* The lines box_plot draws for a 2D box: one closed path, with the caller's
\* extra arguments.
BoxLines2D(box, image, args, kwargs) ==
    << Elem("line", PopColor(kwargs), args, WithoutColor(kwargs), <<>>,
            Flatten(AbsCorners(box, Corners2D, image), 2)) >>

\* The lines box_plot draws for a 3D box: six paths; color is popped from
\* kwargs on the first pass of the loop, so later passes get the default; the
\* plot call is given the path and the color only.
BoxLines3D(box, image, args, kwargs) ==
    LET c == AbsCorners(box, Corners3D, image)
    IN  [j \in 1..Len(Paths3D) |->
            Elem("line", IF j = 1 THEN PopColor(kwargs) ELSE "k", <<>>, {}, <<>>,
                 Flatten([k \in 1..Len(Paths3D[j]) |-> c[Paths3D[j][k]]], 3))]

\* The limits box_plot hands to _set_3d_axes_equal: corners[0] and corners[-1].
BoxLimits(box, image) ==
    LET c == AbsCorners(box, Corners3D, image)
    IN  [i \in 1..3 |-> <<c[1][i], c[Len(c)][i]>>]

\* box_plot: the axes after the call, the axes drawn on and the limits used.
\* title is accepted and never used.
BoxPlot(axs, box, title, ax, image, args, kwargs) ==
    LET e  == EnsureAxes(axs, ax, IF box.is2D THEN 2 ELSE 3)
        id == e.id
    IN  IF box.is2D
        THEN [axes |-> [Draw(e.axes, id, BoxLines2D(box, image, args, kwargs))
                          EXCEPT ![id].aspect = "equal",
                                 ![id].labels = <<<<"$x$">>, <<"$y$">>, @[3]>>],
              id |-> id, limits |-> e.axes[id].lim]
        ELSE [axes |-> [Draw(e.axes, id, BoxLines3D(box, image, args, kwargs))
                          EXCEPT ![id].labels = <<<<"$x$">>, <<"$y$">>, <<"$z$">>>>,
                                 ![id].lim = Set3dAxesEqual(BoxLimits(box, image))],
              id |-> id, limits |-> BoxLimits(box, image)]

\* np.min / np.max of the points along axis 0, component i.
RECURSIVE MinOf(_, _)
MinOf(pts, i) ==
    IF Len(pts) = 1 THEN pts[1][i] ELSE Min2(pts[1][i], MinOf(Tail(pts), i))
RECURSIVE MaxOf(_, _)
MaxOf(pts, i) ==
    IF Len(pts) = 1 THEN pts[1][i] ELSE Max2(pts[1][i], MaxOf(Tail(pts), i))

\* The limits system_plot computes for a 3D system from the box and the points.
SystemLimits(box, pts) ==
    LET box_min == MakeAbsolute(box, <<0, 0, 0>>)
        box_max == MakeAbsolute(box, <<1, 1, 1>>)
    IN  [i \in 1..3 |-> <<Min2(box_min[i], MinOf(pts, i)),
                          Max2(box_max[i], MaxOf(pts, i))>>]

\* system_plot: box_plot on the same axes (no title, no extra arguments), then
\* a scatter of the points with the caller's extra arguments.
SystemPlot(axs, sys, title, ax, args, kwargs) ==
    LET e  == EnsureAxes(axs, ax, IF sys.box.is2D THEN 2 ELSE 3)
        b  == BoxPlot(e.axes, sys.box, NoText, e.id, <<0, 0, 0>>, <<>>, {})
        sc == Elem("scatter", "", args, kwargs, <<>>,
                   Flatten(sys.points, IF sys.box.is2D THEN 2 ELSE 3))
        d  == Draw(b.axes, e.id, <<sc>>)
    IN  IF sys.box.is2D
        THEN [axes |-> [d EXCEPT ![e.id].aspect = "equal"], id |-> e.id,
              limits |-> d[e.id].lim]
        ELSE [axes |-> [d EXCEPT ![e.id].lim =
                                   Set3dAxesEqual(SystemLimits(sys.box, sys.points))],
              id |-> e.id, limits |-> SystemLimits(sys.box, sys.points)]

(***************************** bar charts **********************************)
\* bar_plot: one bar per entry of x, then title, labels and ticks.
BarPlot(axs, x, height, title, xlabel, ylabel, ax) ==
    LET e    == EnsureAxes(axs, ax, 2)
        bars == [i \in 1..Min2(Len(x), Len(height)) |->
                    Elem("bar", "", <<>>, {}, <<x[i]>>, <<height[i]>>)]
    IN  [axes |-> [Draw(e.axes, e.id, bars)
                     EXCEPT ![e.id].title = title,
                            ![e.id].labels = <<xlabel, ylabel, @[3]>>,
                            ![e.id].xticks = x],
         id |-> e.id]

\* zip(keys, freqs) turned into (freq, key) pairs.
FreqKeyPairs(keys, freqs) ==
    [i \in 1..Min2(Len(keys), Len(freqs)) |-> <<freqs[i], keys[i]>>]

\* Insert p into a list sorted by -freq, after every entry that does not sort
\* after it (Python's sort is stable).
RECURSIVE InsertStable(_, _)
InsertStable(sorted, p) ==
    IF sorted = <<>> THEN <<p>>
    ELSE IF -Head(sorted)[1] <= -p[1]
         THEN <<Head(sorted)>> \o InsertStable(Tail(sorted), p)
         ELSE <<p>> \o sorted

\* The same, placing p before the entries of equal frequency.
RECURSIVE InsertUnstable(_, _)
InsertUnstable(sorted, p) ==
    IF sorted = <<>> THEN <<p>>
    ELSE IF -Head(sorted)[1] < -p[1]
         THEN <<Head(sorted)>> \o InsertUnstable(Tail(sorted), p)
         ELSE <<p>> \o sorted

RECURSIVE SortUnstable(_)
SortUnstable(pairs) ==
    IF pairs = <<>> THEN <<>>
    ELSE InsertUnstable(SortUnstable(SubSeq(pairs, 1, Len(pairs) - 1)),
                        pairs[Len(pairs)])

\* sorted(pairs, key=lambda x: -x[0])
RECURSIVE CountSorted(_)
CountSorted(pairs) ==
    IF pairs = <<>> THEN <<>>
    ELSE InsertStable(CountSorted(SubSeq(pairs, 1, Len(pairs) - 1)),
                      pairs[Len(pairs)])

\* The x label clusters_plot builds (an f-string, kept as its pieces).
ClustersXLabel(shown, total) ==
    <<"Keys of ", ToString(shown), " largest clusters (total clusters: ",
      ToString(total), ")">>

\* clusters_plot: sort, cut to num_clusters_to_plot, hand over to bar_plot.
ClustersPlot(axs, keys, freqs, num, ax) ==
    LET top          == Take(CountSorted(FreqKeyPairs(keys, freqs)), num)
        sorted_freqs == [i \in 1..Len(top) |-> top[i][1]]
        sorted_keys  == [i \in 1..Len(top) |-> ToString(top[i][2])]
    IN  BarPlot(axs, sorted_keys, sorted_freqs, <<"Cluster Frequency">>,
                ClustersXLabel(Len(sorted_freqs), Len(freqs)),
                <<"Number of particles">>, ax)

\* line_plot
LinePlot(axs, title, xlabel, ylabel, ax) ==
    LET e == EnsureAxes(axs, ax, 2)
    IN  [axes |-> [Draw(e.axes, e.id, <<Elem("line", "", <<>>, {}, <<>>, <<>>)>>)
                     EXCEPT ![e.id].title = title,
                            ![e.id].labels = <<xlabel, ylabel, @[3]>>],
         id |-> e.id]

\* ax.legend(labels): an axes holds one legend, so the new one replaces any
\* legend already on it.
NotLegend(e) == e.kind # "legend"
SetLegend(axs, id, legend_labels) ==
    [axs EXCEPT ![id].elems =
        Append(SelectSeq(@, NotLegend),
               Elem("legend", "", <<>>, {}, legend_labels, <<>>))]

\* histogram_plot
HistogramPlot(axs, title, xlabel, ylabel, ax, legend_labels) ==
    LET e  == EnsureAxes(axs, ax, 2)
        a0 == [Draw(e.axes, e.id, <<Elem("hist", "", <<>>, {}, <<>>, <<>>)>>)
                 EXCEPT ![e.id].title = title,
                        ![e.id].labels = <<xlabel, ylabel, @[3]>>]
    IN  [axes |-> IF legend_labels = NoText THEN a0
                  ELSE SetLegend(a0, e.id, legend_labels),
         id |-> e.id]

(***************************** images **************************************)
\* pmft_arr[np.isinf(pmft_arr)] = np.nan
ReplaceInf(arr) == [i \in 1..Len(arr) |-> IF arr[i] = "inf" THEN "nan" ELSE arr[i]]

\* The two arrays after "pmft_arr = pmft.pmft" (no copy) and the replacement.
PmftArrays_nocopy(arr) == [caller |-> ReplaceInf(arr), local |-> ReplaceInf(arr)]

\* The two arrays after "pmft_arr = np.copy(pmft.pmft)" and the replacement:
\* the caller's array, and the local one that is drawn.
PmftArrays(arr) == [caller |-> arr, local |-> ReplaceInf(arr)]

\* pmft_plot (tick placement is not modelled).
PmftPlot(axs, pmft, ax, cmap) ==
    LET e  == EnsureAxes(axs, ax, 2)
        a0 == [e.axes EXCEPT ![e.id].lim = <<pmft.bounds[1], pmft.bounds[2], @[3]>>,
                             ![e.id].labels = <<<<"$x$">>, <<"$y$">>, @[3]>>,
                             ![e.id].title = <<"PMFT">>]
        a1 == AppendCax(a0, e.id)
        im == Elem("image", "", <<>>, {<<"cmap", cmap>>},
                   Flipud(PmftArrays(pmft.pmft).local),
                   pmft.bounds[1] \o pmft.bounds[2])
    IN  [axes |-> DrawColorbar(Draw(a1, e.id, <<im>>), <<"$k_B T$">>),
         id |-> e.id, pmft |-> [pmft EXCEPT !.pmft = PmftArrays(pmft.pmft).caller]]

\* density_plot: the image extent is (-Lx/2, Lx/2, -Ly/2, Ly/2).
DensityPlot(axs, density, box, ax) ==
    LET e  == EnsureAxes(axs, ax, 2)
        a0 == [e.axes EXCEPT ![e.id].title = <<"Gaussian Density">>,
                             ![e.id].labels = <<<<"$x$">>, <<"$y$">>, @[3]>>]
        a1 == AppendCax(a0, e.id)
        im == Elem("image", "", <<>>, {}, <<>>,
                   <<-2 * box.L[1], 2 * box.L[1], -2 * box.L[2], 2 * box.L[2]>>
                   \o Flipud(density))
    IN  [axes |-> DrawColorbar(Draw(a1, e.id, <<im>>), <<"Density">>), id |-> e.id]

\* diffraction_plot (the image data and the colour scale are not modelled).
DiffractionPlot(axs, ax, cmap) ==
    LET e  == EnsureAxes(axs, ax, 2)
        im == Elem("image", "", <<>>, {<<"cmap", cmap>>}, <<>>, <<>>)
        a1 == AppendCax(Draw(e.axes, e.id, <<im>>), e.id)
        a2 == DrawColorbar(a1, <<"$S(\\vec{k})$">>)
    IN  [axes |-> [a2 EXCEPT ![e.id].title = <<"Diffraction Pattern">>,
                             ![e.id].aspect = "equal",
                             ![e.id].labels = <<<<"$k_x$">>, <<"$k_y$">>, @[3]>>],
         id |-> e.id]

(***************************** Voronoi *************************************)
NoError == [type |-> "", msg |-> <<>>]

\* The colouring-mode check that takes every value for a random colouring.
ColorByError_lenient(color_by) == NoError

\* The colouring-mode check of voronoi_plot: the error it raises for color_by,
\* or none.  The None object is written "None"; the message is kept as the
\* pieces of its f-string.
ColorByError(color_by) ==
    IF color_by = "sides" THEN NoError
    ELSE IF color_by = "area" THEN NoError
    ELSE IF color_by = "None" THEN NoError
    ELSE [type |-> "RuntimeError",
          msg |-> <<"Invalid color_by option ", color_by, ".">>]

\* The colors array: side counts, areas, or a random permutation of the cells.
Colors(vor, color_by, perm) ==
    IF color_by = "sides" THEN vor.sides
    ELSE IF color_by = "area" THEN vor.volumes
    ELSE perm

\* num_colors: np.ptp(colors) + 1, None (written 0) or the number of cells.
NumColors(vor, color_by) ==
    IF color_by = "sides"
    THEN MaxOf([i \in 1..Len(vor.sides) |-> <<vor.sides[i]>>], 1)
         - MinOf([i \in 1..Len(vor.sides) |-> <<vor.sides[i]>>], 1) + 1
    ELSE IF color_by = "area" THEN 0
    ELSE Len(vor.sides)

\* The colormap name handed to cm.get_cmap.
ResolveCmap(cmap, color_by, num_colors) ==
    IF cmap = "None" /\ color_by # "area"
    THEN IF color_by # "None" /\ num_colors <= 10 THEN "tab10" ELSE "tab20"
    ELSE cmap

\* Whether the "More than 20 unique colors" warning is issued.
Warns(cmap, color_by, num_colors) ==
    /\ cmap = "None" /\ color_by # "area"
    /\ ~(color_by # "None" /\ num_colors <= 10)
    /\ num_colors > 20

\* np.arange(lo, hi + 1), as tick labels.
Bounds(colors) ==
    LET lo == MinOf([i \in 1..Len(colors) |-> <<colors[i]>>], 1)
        hi == MaxOf([i \in 1..Len(colors) |-> <<colors[i]>>], 1)
    IN  [i \in 1..(hi - lo + 1) |-> ToString(lo + i - 1)]

\* voronoi_plot.  The axes is created before the colouring mode is checked, so
\* a call that raises with ax=None leaves a new, empty axes behind.
VoronoiPlot(axs, vor, box, ax, color_by, cmap, perm) ==
    LET e      == EnsureAxes(axs, ax, 2)
        err    == ColorByError(color_by)
        colors == Colors(vor, color_by, perm)
        nc     == NumColors(vor, color_by)
        pc     == Elem("collection", "black", <<>>, {<<"alpha", "0.4">>},
                       <<ResolveCmap(cmap, color_by, nc)>>,
                       [i \in 1..Len(colors) |-> 4 * colors[i] - 2])
        cs     == AbsCorners(box, Corners2D, <<0, 0, 0>>)
        ln     == Elem("line", "k", <<>>, {}, <<>>, Flatten(cs, 2))
        a0     == [Draw(e.axes, e.id, <<pc, ln>>)
                     EXCEPT ![e.id].title = <<"Voronoi Diagram">>,
                            ![e.id].lim = <<<<MinOf(cs, 1), MaxOf(cs, 1)>>,
                                            <<MinOf(cs, 2), MaxOf(cs, 2)>>, @[3]>>,
                            ![e.id].aspect = "equal"]
        label  == IF color_by = "sides" THEN <<"Number of sides">>
                  ELSE <<"Polytope Area">>
        a1     == [DrawColorbar(AppendCax(a0, e.id), label)
                     EXCEPT ![Len(a0) + 1].xticks = Bounds(colors)]
    IN  IF err # NoError
        THEN [axes |-> e.axes, id |-> e.id, raised |-> err, warned |-> FALSE]
        ELSE [axes |-> IF color_by # "None" THEN a1 ELSE a0, id |-> e.id,
              raised |-> NoError, warned |-> Warns(cmap, color_by, nc)]

(***************************** raster export *******************************)
\* fig.clf(): every axes of the figure is cleared and taken off the figure.
Clf(axs, fig) ==
    [i \in 1..Len(axs) |->
        IF axs[i].fig = fig
        THEN [NewAxes(fig, axs[i].dim) EXCEPT !.attached = FALSE]
        ELSE axs[i]]

\* _ax_to_bytes: render ax.figure to PNG bytes, then clear the figure.
AxToBytes(axs, ax) == Clf(axs, axs[ax].fig)

(***************************** inputs **************************************)
Titles == {NoText, <<"T">>}

\* Extra positional and keyword arguments a caller may add.
Extras ==
    { [args |-> <<>>, kwargs |-> {}],
      [args |-> <<"--">>, kwargs |-> {<<"linewidth", "2">>}],
      [args |-> <<>>, kwargs |-> {<<"color", "r">>, <<"linewidth", "2">>}] }

Images == {<<0, 0, 0>>, <<1, 0, 0>>}

ColorBys == {"sides", "area", "None", "volume", "Sides"}
Cmaps == {"None", "viridis"}

\* Permutations of 0..n-1.
Perms(n) ==
    {p \in [1..n -> 0..(n - 1)] : \A i, j \in 1..n : p[i] = p[j] => i = j}

\* Coordinates: the integers up to MaxCoord in size, in quarters.
Coords == {4 * c : c \in -MaxCoord..MaxCoord}
Ranges == {r \in Coords \X Coords : r[1] <= r[2]}
LimitChoices == Ranges \X Ranges \X Ranges

Lengths == 1..MaxL
Boxes3D == {[is2D |-> FALSE, L |-> l] : l \in Lengths \X Lengths \X Lengths}

\* One particle anywhere, alone or with a second one far out.
Particles ==
    {<<p>> : p \in Coords \X Coords \X Coords}
    \cup {<<p, <<4 * MaxCoord, 0, -4 * MaxCoord>>>> : p \in Coords \X Coords \X Coords}

KeyVals == {3, 7, 12}
RECURSIVE SeqsOfLen(_, _)
SeqsOfLen(S, n) ==
    IF n = 0 THEN {<<>>}
    ELSE {Append(q, x) : q \in SeqsOfLen(S, n - 1), x \in S}

\* keys and freqs of equal length, up to MaxLen clusters.
ClusterInputs ==
    UNION {SeqsOfLen(KeyVals, n) \X SeqsOfLen(1..MaxFreq, n) : n \in 0..MaxLen}

Box2D == [is2D |-> TRUE, L |-> <<2, 1, 0>>]
Box3D == [is2D |-> FALSE, L |-> <<2, 1, 1>>]

\* A caller's data: a system (box and points), cluster keys and sizes, a PMFT
\* with its bounds, a Voronoi tessellation, a density array and explicit limits.
BaseData ==
    [box |-> Box2D, points |-> <<<<2, 0, 0>>, <<-2, 2, 0>>>>,
     keys |-> <<7, 3, 12>>, freqs |-> <<1, 2, 2>>,
     pmft |-> [pmft |-> <<"fin", "inf", "fin">>, bounds |-> <<<<-8, 8>>, <<-4, 4>>>>],
     vor |-> [sides |-> <<4, 6>>, volumes |-> <<1, 3>>],
     density |-> <<1, 2>>,
     limits |-> <<<<-2, 2>>, <<0, 4>>, <<0, 0>>>>]

MainData ==
    { BaseData,
      [BaseData EXCEPT !.box = Box3D, !.points = <<<<2, 0, 0>>, <<-2, 6, 0>>>>] }

EqualData ==
    {[BaseData EXCEPT !.box = Box3D, !.limits = l] : l \in LimitChoices}
    \cup {[BaseData EXCEPT !.box = b, !.points = ps] : b \in Boxes3D, ps \in Particles}

ClustersData ==
    {[BaseData EXCEPT !.keys = kf[1], !.freqs = kf[2]] : kf \in ClusterInputs}

(***************************** operations **********************************)
Dim == IF data.box.is2D THEN 2 ELSE 3

Called(op, ax, id, ret) ==
    [NoResult EXCEPT !.op = op, !.ax = ax, !.target = id, !.first = FirstNew(ax),
                     !.ret = ret]

box_plot ==
    /\ calls < MaxCalls
    /\ \E title \in Titles, ax \in AxChoices(Dim), image \in Images, ex \in Extras :
         \E r \in {BoxPlot(axes, data.box, title, ax, image, ex.args, ex.kwargs)} :
             /\ axes' = r.axes
             /\ result' = [Called("box_plot", ax, r.id, RetAxes(r.id))
                             EXCEPT !.title = title, !.args = ex.args,
                                    !.kwargs = ex.kwargs, !.limits = r.limits]
    /\ calls' = calls + 1
    /\ UNCHANGED data

\* system_plot returns the pair (ax, sc).
system_plot ==
    /\ calls < MaxCalls
    /\ \E title \in Titles, ax \in AxChoices(Dim), ex \in Extras :
         \E r \in {SystemPlot(axes, data, title, ax, ex.args, ex.kwargs)} :
             /\ axes' = r.axes
             /\ result' = [Called("system_plot", ax, r.id, [kind |-> "tuple", ax |-> r.id])
                             EXCEPT !.title = title, !.args = ex.args,
                                    !.kwargs = ex.kwargs, !.limits = r.limits]
    /\ calls' = calls + 1
    /\ UNCHANGED data

bar_plot ==
    /\ calls < MaxCalls
    /\ \E title \in Titles, ax \in AxChoices(2) :
         \E r \in {BarPlot(axes, [i \in 1..Len(data.keys) |-> ToString(data.keys[i])],
                          data.freqs, title, NoText, NoText, ax)} :
             /\ axes' = r.axes
             /\ result' = [Called("bar_plot", ax, r.id, RetAxes(r.id))
                             EXCEPT !.title = title]
    /\ calls' = calls + 1
    /\ UNCHANGED data

clusters_plot ==
    /\ calls < MaxCalls
    /\ \E num \in 0..(MaxLen + 1), ax \in AxChoices(2) :
         \E r \in {ClustersPlot(axes, data.keys, data.freqs, num, ax)} :
             /\ axes' = r.axes
             /\ result' = [Called("clusters_plot", ax, r.id, RetAxes(r.id))
                             EXCEPT !.num = num]
    /\ calls' = calls + 1
    /\ UNCHANGED data

line_plot ==
    /\ calls < MaxCalls
    /\ \E title \in Titles, ax \in AxChoices(2) :
         \E r \in {LinePlot(axes, title, NoText, NoText, ax)} :
             /\ axes' = r.axes
             /\ result' = [Called("line_plot", ax, r.id, RetAxes(r.id))
                             EXCEPT !.title = title]
    /\ calls' = calls + 1
    /\ UNCHANGED data

histogram_plot ==
    /\ calls < MaxCalls
    /\ \E title \in Titles, ax \in AxChoices(2), legend \in {NoText, <<"a">>} :
         \E r \in {HistogramPlot(axes, title, NoText, NoText, ax, legend)} :
             /\ axes' = r.axes
             /\ result' = [Called("histogram_plot", ax, r.id, RetAxes(r.id))
                             EXCEPT !.title = title, !.legend_labels = legend]
    /\ calls' = calls + 1
    /\ UNCHANGED data

pmft_plot ==
    /\ calls < MaxCalls
    /\ \E ax \in AxChoices(2) :
         \E r \in {PmftPlot(axes, data.pmft, ax, "viridis")} :
             /\ axes' = r.axes
             /\ data' = [data EXCEPT !.pmft = r.pmft]
             /\ result' = Called("pmft_plot", ax, r.id, RetAxes(r.id))
    /\ calls' = calls + 1

density_plot ==
    /\ calls < MaxCalls
    /\ \E ax \in AxChoices(2) :
         \E r \in {DensityPlot(axes, data.density, data.box, ax)} :
             /\ axes' = r.axes
             /\ result' = Called("density_plot", ax, r.id, RetAxes(r.id))
    /\ calls' = calls + 1
    /\ UNCHANGED data

voronoi_plot ==
    /\ calls < MaxCalls
    /\ \E ax \in AxChoices(2), color_by \in ColorBys, cmap \in Cmaps :
       \E perm \in IF color_by = "None" THEN Perms(Len(data.vor.sides))
                   ELSE {[i \in 1..Len(data.vor.sides) |-> i - 1]} :
         \E r \in {VoronoiPlot(axes, data.vor, data.box, ax, color_by, cmap, perm)} :
             /\ axes' = r.axes
             /\ result' = [Called("voronoi_plot", ax, r.id,
                                  IF r.raised = NoError THEN RetAxes(r.id)
                                  ELSE [kind |-> "raise", ax |-> NoAx])
                             EXCEPT !.color_by = color_by, !.cmap = cmap,
                                    !.raised = r.raised, !.warned = r.warned]
    /\ calls' = calls + 1
    /\ UNCHANGED data

\* diffraction_plot ends without a return statement: the caller gets None.
diffraction_plot ==
    /\ calls < MaxCalls
    /\ \E ax \in AxChoices(2) :
         \E r \in {DiffractionPlot(axes, ax, "afmhot")} :
             /\ axes' = r.axes
             /\ result' = Called("diffraction_plot", ax, r.id,
                                 [kind |-> "none", ax |-> NoAx])
    /\ calls' = calls + 1
    /\ UNCHANGED data

\* _ax_to_bytes on an axes that is on a figure.
ax_to_bytes ==
    /\ calls < MaxCalls
    /\ \E ax \in {i \in 1..Len(axes) : axes[i].attached} :
         /\ axes' = AxToBytes(axes, ax)
         /\ result' = Called("_ax_to_bytes", ax, ax, [kind |-> "bytes", ax |-> NoAx])
    /\ calls' = calls + 1
    /\ UNCHANGED data

\* _set_3d_axes_equal on a 3D axes, with the caller's limits or with None
\* (the limits are then read from the axes).
set_3d_axes_equal ==
    /\ calls < MaxCalls
    /\ \E ax \in {i \in 1..Len(axes) : axes[i].dim = 3}, given \in BOOLEAN :
         LET limits == IF given THEN data.limits ELSE axes[ax].lim
         IN  /\ axes' = [axes EXCEPT ![ax].lim = Set3dAxesEqual(limits)]
             /\ result' = [Called("_set_3d_axes_equal", ax, ax, RetAxes(ax))
                             EXCEPT !.limits = limits]
    /\ calls' = calls + 1
    /\ UNCHANGED data

(***************************** specifications ******************************)
Init ==
    /\ axes = <<>>
    /\ data \in MainData
    /\ result = NoResult
    /\ calls = 0

Next ==
    \/ box_plot
    \/ system_plot
    \/ bar_plot
    \/ clusters_plot
    \/ line_plot
    \/ histogram_plot
    \/ pmft_plot
    \/ density_plot
    \/ voronoi_plot
    \/ diffraction_plot
    \/ ax_to_bytes
    \/ set_3d_axes_equal

Spec == Init /\ [][Next]_vars

\* One call of clusters_plot for every keys/freqs input.
InitClusters ==
    /\ axes = <<>>
    /\ data \in ClustersData
    /\ result = NoResult
    /\ calls = MaxCalls - 1

NextClusters == clusters_plot \/ bar_plot

SpecClusters == InitClusters /\ [][NextClusters]_vars

\* One call on a fresh 3D axes for every limits, box and particle input.
InitEqual ==
    /\ axes = <<NewAxes(1, 3)>>
    /\ data \in EqualData
    /\ result = NoResult
    /\ calls = MaxCalls - 1

NextEqual == set_3d_axes_equal \/ system_plot

SpecEqual == InitEqual /\ [][NextEqual]_vars

(***************************** claims **************************************)
\* The elements the last call drew on the axes it drew on.
Drawn == SubSeq(axes[result.target].elems, result.first + 1,
                Len(axes[result.target].elems))

IsPrefix(a, b) == Len(a) <= Len(b) /\ SubSeq(b, 1, Len(a)) = a

PlotOps ==
    {"box_plot", "system_plot", "bar_plot", "clusters_plot", "line_plot",
     "histogram_plot", "pmft_plot", "density_plot", "voronoi_plot",
     "diffraction_plot"}

\* C1: voronoi_plot raises a RuntimeError whose message contains color_by
\* exactly when color_by is none of 'sides', 'area' and None, whatever cmap and
\* ax are; for the three recognised values it raises nothing and returns.
C1_InvalidColorByRaises ==
    result.op = "voronoi_plot" =>
        IF result.color_by \in {"sides", "area", "None"}
        THEN result.raised.type = "" /\ result.ret.kind = "axes"
        ELSE /\ result.raised.type = "RuntimeError"
             /\ \E i \in DOMAIN result.raised.msg :
                    result.raised.msg[i] = result.color_by
             /\ result.ret.kind = "raise"

C1_Witness ==
    /\ result.op = "voronoi_plot"
    /\ result.color_by = "volume"
    /\ result.cmap = "viridis"
    /\ result.ax # NoAx
    /\ result.raised.type = "RuntimeError"

C3_OneAxesPerCall ==
    [][Len(axes') - Len(axes) = (IF result'.ax = NoAx THEN 1 ELSE 0)]_vars

HasColorbar(r) ==
    \/ r.op \in {"pmft_plot", "density_plot", "diffraction_plot"}
    \/ r.op = "voronoi_plot" /\ r.color_by \in {"sides", "area"}

\* C3 amended: a call creates one axes object exactly when ax is None, plus
\* one colorbar axes in pmft_plot, density_plot, diffraction_plot and in
\* voronoi_plot with color_by 'sides' or 'area': at most two per call.
C3_AxesPerCall ==
    [][Len(axes') - Len(axes) =
          (IF result'.ax = NoAx THEN 1 ELSE 0)
          + (IF HasColorbar(result') THEN 1 ELSE 0)]_vars

C3_Witness ==
    /\ result.op = "pmft_plot"
    /\ result.ax = NoAx
    /\ Len(axes) = 2
    /\ axes[2].fig = axes[1].fig
    /\ calls = 1

\* C4 as stated: no call removes an element already drawn on an axes, and
\* the caller's data is left unchanged.
C4_OnlyAdds ==
    [][/\ data' = data
       /\ \A i \in 1..Len(axes) : IsPrefix(axes[i].elems, axes'[i].elems)]_vars

\* C4 amended: the plotting functions (and _set_3d_axes_equal) remove no
\* element already drawn, except that histogram_plot given legend_labels
\* replaces the legend of its axes, and no function changes the caller's
\* data; _ax_to_bytes clears every axes of the figure it rendered and leaves
\* the axes of other figures alone.
C4_PlotsOnlyAdd ==
    [][/\ data' = data
       /\ Len(axes) <= Len(axes')
       /\ \A i \in 1..Len(axes) :
            IF result'.op = "_ax_to_bytes"
            THEN IF axes[i].fig = axes[result'.ax].fig
                 THEN axes'[i].elems = <<>> /\ ~axes'[i].attached
                 ELSE axes'[i] = axes[i]
            ELSE /\ axes'[i].attached = axes[i].attached
                 /\ IF /\ result'.op = "histogram_plot"
                       /\ result'.legend_labels # NoText
                       /\ result'.target = i
                    THEN IsPrefix(SelectSeq(axes[i].elems, NotLegend), axes'[i].elems)
                    ELSE IsPrefix(axes[i].elems, axes'[i].elems)]_vars

C4_Witness ==
    /\ result.op = "pmft_plot"
    /\ result.ax # NoAx
    /\ result.first > 0
    /\ Len(axes[result.ax].elems) > result.first
    /\ \E i \in DOMAIN data.pmft.pmft : data.pmft.pmft[i] = "inf"
    /\ \E i \in DOMAIN Drawn : Drawn[i].kind = "image" /\ "nan" \in {Drawn[i].x[k] : k \in DOMAIN Drawn[i].x}

\* C5: every line box_plot draws is plotted with the caller's extra positional
\* and keyword arguments (color among them), for a 2D and for a 3D box.
C5_ExtrasReachPlot ==
    result.op = "box_plot" =>
        \A j \in DOMAIN Drawn :
            Drawn[j].kind = "line" =>
                /\ Drawn[j].args = result.args
                /\ Drawn[j].kwargs = WithoutColor(result.kwargs)
                /\ Drawn[j].color = PopColor(result.kwargs)

\* C6: after a call of a function that takes a title, the title of the axes
\* it returns is that argument.
C6_TitleSet ==
    result.op \in {"box_plot", "system_plot", "bar_plot", "line_plot",
                   "histogram_plot"} =>
        axes[result.target].title = result.title

\* C7: for keys and freqs of equal length n, clusters_plot draws exactly
\* min(num_clusters_to_plot, n) bars, heights non-increasing, each bar a
\* distinct input cluster with its own key as label, ties in input order, no
\* omitted cluster larger than a plotted one (nor equal and earlier in the
\* input), and the x label reports the number of bars and n.
C7_LargestClusters ==
    (result.op = "clusters_plot" /\ Len(data.keys) = Len(data.freqs)) =>
        LET n == Len(data.freqs)
            m == Len(Drawn)
        IN  /\ m = Min2(result.num, n)
            /\ \A j \in 1..m : Drawn[j].kind = "bar"
            /\ \A j \in 1..(m - 1) : Drawn[j].h[1] >= Drawn[j + 1].h[1]
            /\ \E p \in [1..m -> 1..n] :
                 /\ \A j, k \in 1..m : p[j] = p[k] => j = k
                 /\ \A j \in 1..m :
                      /\ Drawn[j].x = <<ToString(data.keys[p[j]])>>
                      /\ Drawn[j].h = <<data.freqs[p[j]]>>
                 /\ \A j, k \in 1..m :
                      (j < k /\ data.freqs[p[j]] = data.freqs[p[k]]) => p[j] < p[k]
                 /\ \A i \in 1..n :
                      (\A j \in 1..m : p[j] # i) =>
                          \A j \in 1..m :
                              \/ data.freqs[i] < data.freqs[p[j]]
                              \/ data.freqs[i] = data.freqs[p[j]] /\ p[j] < i
            /\ Len(axes[result.target].labels[1]) = 5
            /\ axes[result.target].labels[1][2] = ToString(m)
            /\ axes[result.target].labels[1][4] = ToString(n)

C7_Witness ==
    /\ result.op = "clusters_plot"
    /\ data.freqs = <<1, 2, 2>>
    /\ data.keys = <<7, 3, 12>>
    /\ result.num = 2
    /\ Len(Drawn) = 2
    /\ Drawn[1].x = <<"3">>
    /\ Drawn[2].x = <<"12">>

\* C8: given limits with min <= max, _set_3d_axes_equal leaves the x, y and z
\* ranges all as long as the largest input span, each centred on the midpoint
\* of its input range and containing it; after system_plot on a 3D system
\* every particle and the box corners at fractional [0,0,0] and [1,1,1] lie
\* within the limits.
C8_EqualScale ==
    (/\ result.op \in {"_set_3d_axes_equal", "system_plot"}
     /\ axes[result.target].dim = 3
     /\ \A i \in 1..3 : result.limits[i][1] <= result.limits[i][2]) =>
        LET lim == axes[result.target].lim
            in  == result.limits
        IN  /\ \A i \in 1..3 :
                 /\ \E j \in 1..3 : lim[i][2] - lim[i][1] = in[j][2] - in[j][1]
                 /\ \A j \in 1..3 : lim[i][2] - lim[i][1] >= in[j][2] - in[j][1]
                 /\ lim[i][1] + lim[i][2] = in[i][1] + in[i][2]
                 /\ lim[i][1] <= in[i][1] /\ in[i][2] <= lim[i][2]
            /\ result.op = "system_plot" =>
                 \A i \in 1..3 :
                    /\ \A k \in DOMAIN data.points :
                           lim[i][1] <= data.points[k][i] /\ data.points[k][i] <= lim[i][2]
                    /\ lim[i][1] <= MakeAbsolute(data.box, <<0, 0, 0>>)[i]
                    /\ MakeAbsolute(data.box, <<1, 1, 1>>)[i] <= lim[i][2]

C8_Witness ==
    /\ result.op = "system_plot"
    /\ axes[result.target].dim = 3
    /\ \E i, j \in 1..3 : Span(result.limits[i]) < Span(result.limits[j])
    /\ \E k \in DOMAIN data.points :
           data.points[k][1] > MakeAbsolute(data.box, <<1, 1, 1>>)[1]
    /\ \E i \in 1..3 : axes[result.target].lim[i][1] < result.limits[i][1]

====
